---- MODULE Spec2Model ----
(***************************************************************************)
(* The bridging adapter HybridDynamicActivitiesSpecSwift (C++), which      *)
(* wraps one handle to a foreign (Swift) HybridDynamicActivitiesSpec_cxx   *)
(* instance and forwards sum and getExternalMemorySize to it.              *)
(*                                                                         *)
(* The foreign side is not part of the C++ sources: its arithmetic and its *)
(* memory-size query are modelled from the specification.  The doubles the *)
(* model calls sum with are the multiples of one half up to MaxUnits       *)
(* halves (2.5 is 5 units), both zeros, and DBL_MAX with either sign.      *)
(* binary64 adds the former exactly; a small number added to DBL_MAX is    *)
(* rounded away, and DBL_MAX + DBL_MAX overflows to infinity.              *)
(***************************************************************************)
EXTENDS Integers, Sequences, FiniteSets

\* ------------------------------------------------------------------ bounds
MaxUnits == 7
MaxInst == 2
MaxAdapters == 2
MaxMem == 3
SizeBits == 4
MaxCount == 4

\* ------------------------------------------------------------------ double
RECURSIVE Pow2(_)
Pow2(n) == IF n = 0 THEN 1 ELSE 2 * Pow2(n - 1)

Abs(n) == IF n < 0 THEN -n ELSE n

\* A finite double of u halves, with sign bit s.
Fin(s, u) == [k |-> "fin", s |-> s, u |-> u]

\* DBL_MAX, with sign bit s.
Max(s) == [k |-> "max", s |-> s, u |-> 0]

Inf(s) == [k |-> "inf", s |-> s, u |-> 0]

NoFloat == [k |-> "none", s |-> 0, u |-> 0]

Floats == { Fin(s, u) : s \in {0, 1}, u \in 0..MaxUnits } \cup { Max(0), Max(1) }

\* The signed number of halves a small finite double stands for.
Units(x) == IF x.s = 1 THEN -(x.u) ELSE x.u

\* IEEE-754 comparison ==: the two zeros compare equal.
FEq(x, y) ==
    /\ x.k = y.k
    /\ x.u = y.u
    /\ (x.s = y.s \/ (x.k = "fin" /\ x.u = 0))

\* x + y on finite doubles, in binary64: exact on small multiples of one
\* half; a small addend is less than half a unit in the last place of
\* DBL_MAX and is rounded away; DBL_MAX + DBL_MAX overflows.
FAdd(x, y) ==
    IF x.k = "fin" /\ y.k = "fin"
    THEN LET t == Units(x) + Units(y)
         IN  IF t = 0
             THEN IF x.u = 0 /\ y.u = 0 /\ x.s = 1 /\ y.s = 1 THEN Fin(1, 0) ELSE Fin(0, 0)
             ELSE Fin(IF t < 0 THEN 1 ELSE 0, Abs(t))
    ELSE IF x.k = "max" /\ y.k = "max"
    THEN IF x.s = y.s THEN Inf(x.s) ELSE Fin(0, 0)
    ELSE IF x.k = "max" THEN x
    ELSE y

\* ------------------------------------------------------------ foreign side
Null == 0

NoError == "none"

Errors == {"E1", "E2"}

Faults == {NoError} \cup Errors

\* The foreign instance's sum: a Result that carries a + b, or the error the
\* foreign implementation signalled.
ForeignSum(x, y, fault) ==
    IF fault = NoError
    THEN [hasError |-> FALSE, error |-> NoError, value |-> FAdd(x, y)]
    ELSE [hasError |-> TRUE, error |-> fault, value |-> NoFloat]

\* What the foreign instance's getMemorySize may answer: a number of bytes.
ForeignMemorySizes == 0..MaxMem

\* Copying a handle takes one more reference to its instance; a handle that
\* designates no instance has no count to change.
Retain(f, i) == IF i \in DOMAIN f THEN [f EXCEPT ![i].rc = @ + 1] ELSE f

\* Destroying a handle gives its reference back; the instance dies with the
\* last one.  A handle to an instance already dead takes its count below
\* what is held.
Release(f, i) ==
    IF i \in DOMAIN f
    THEN [f EXCEPT ![i] = [st |-> IF @.rc = 1 THEN "dead" ELSE @.st, rc |-> @.rc - 1]]
    ELSE f

\* The handle h designates a live instance.
IsLive(f, h) == h \in DOMAIN f /\ f[h].st = "live"

\* The reference count behind the handle h.
Rc(f, h) == IF h \in DOMAIN f THEN f[h].rc ELSE 0

\* ------------------------------------------------------------- the adapter
Adapters == 1..MaxAdapters

Instances == 1..MaxInst

Unbuilt == [st |-> "unbuilt", _swiftPart |-> Null]

NoOutcome == [raised |-> FALSE, error |-> NoError, value |-> NoFloat, size |-> 0]

\* size_t: an unsigned integer of SizeBits bits.
ToSizeT(n) == n % Pow2(SizeBits)

\* HybridDynamicActivitiesSpecSwift(const HybridDynamicActivitiesSpec_cxx& swiftPart):
\* the member _swiftPart is copy-constructed from the caller's handle, which
\* the caller keeps.
AdapterConstruct(swiftPart, f) ==
    [self |-> [st |-> "alive", _swiftPart |-> swiftPart], foreign |-> Retain(f, swiftPart)]

\* The implicit destructor: the member _swiftPart is destroyed with the adapter.
AdapterDestroy(self, f) ==
    [self |-> [st |-> "destroyed", _swiftPart |-> Null],
     foreign |-> Release(f, self._swiftPart)]

\* getSwiftPart(): a reference to the member _swiftPart.
AdapterGetSwiftPart(self) == self._swiftPart

\* What a read may find that is the identity of no instance.
Garbage == MaxInst + 1

\* The reference getSwiftPart returned, once its adapter is destroyed: it
\* dangles, and what a read through it finds is not determined.
Dangling == Null - 1

\* What a read through a dangling reference may find, each time it is made:
\* the handle of any instance there is or has been (the old one where the
\* storage is untouched, another one where the storage has been reused), or
\* garbage.
DanglingReads(f) == { i \in DOMAIN f : f[i].st # "unborn" } \cup {Garbage}

\* An assignment of a handle to instance i through the reference that
\* getSwiftPart returned: the member takes a reference to i and gives up
\* the one it had.
AdapterAssignSwiftPart(self, i, f) ==
    [self |-> [self EXCEPT !._swiftPart = i],
     foreign |-> Release(Retain(f, i), self._swiftPart)]

AdapterGetExternalMemorySize_OffByOne(self, mem) ==
    [out |-> [raised |-> FALSE, error |-> NoError, value |-> NoFloat,
              size |-> ToSizeT(mem + 1)],
     self |-> self]

\* getExternalMemorySize() noexcept: _swiftPart.getMemorySize() as a size_t;
\* mem is what the foreign instance answers.
AdapterGetExternalMemorySize(self, mem) ==
    [out |-> [raised |-> FALSE, error |-> NoError, value |-> NoFloat,
              size |-> ToSizeT(mem)],
     self |-> self]

AdapterSum_Swallow(self, num1, num2, faults) ==
    LET __result == ForeignSum(num1, num2, faults[1])
    IN  [out |-> [raised |-> FALSE, error |-> NoError,
                  value |-> IF __result.hasError THEN Fin(0, 0) ELSE __result.value,
                  size |-> 0],
         calls |-> << <<num1, num2>> >>,
         self |-> self]

AdapterSum_Swap(self, num1, num2, faults) ==
    LET __result == ForeignSum(num2, num1, faults[1])
    IN  [out |-> IF __result.hasError
                 THEN [raised |-> TRUE, error |-> __result.error, value |-> NoFloat, size |-> 0]
                 ELSE [raised |-> FALSE, error |-> NoError, value |-> __result.value, size |-> 0],
         calls |-> << <<num2, num1>> >>,
         self |-> self]

AdapterSum_DupArg(self, num1, num2, faults) ==
    LET __result == ForeignSum(num1, num1, faults[1])
    IN  [out |-> IF __result.hasError
                 THEN [raised |-> TRUE, error |-> __result.error, value |-> NoFloat, size |-> 0]
                 ELSE [raised |-> FALSE, error |-> NoError, value |-> __result.value, size |-> 0],
         calls |-> << <<num1, num1>> >>,
         self |-> self]

AdapterSum_Retry(self, num1, num2, faults) ==
    LET once    == ForeignSum(num1, num2, faults[1])
        again   == ForeignSum(num1, num2, faults[2])
        __result == IF once.hasError THEN again ELSE once
    IN  [out |-> IF __result.hasError
                 THEN [raised |-> TRUE, error |-> __result.error, value |-> NoFloat, size |-> 0]
                 ELSE [raised |-> FALSE, error |-> NoError, value |-> __result.value, size |-> 0],
         calls |-> IF once.hasError THEN << <<num1, num2>>, <<num1, num2>> >>
                   ELSE << <<num1, num2>> >>,
         self |-> self]

AdapterSum_DropHandleOnError(self, num1, num2, faults) ==
    LET __result == ForeignSum(num1, num2, faults[1])
    IN  [out |-> IF __result.hasError
                 THEN [raised |-> TRUE, error |-> __result.error, value |-> NoFloat, size |-> 0]
                 ELSE [raised |-> FALSE, error |-> NoError, value |-> __result.value, size |-> 0],
         calls |-> << <<num1, num2>> >>,
         self |-> IF __result.hasError THEN [self EXCEPT !._swiftPart = Null] ELSE self]

\* sum(num1, num2): one call of _swiftPart.sum(num1, num2); its error is
\* rethrown, else its value is returned.  faults[k] is what the foreign
\* implementation signals on the k-th call it receives; calls lists the
\* argument pairs the foreign instance received.
AdapterSum(self, num1, num2, faults) ==
    LET __result == ForeignSum(num1, num2, faults[1])
    IN  [out |-> IF __result.hasError
                 THEN [raised |-> TRUE, error |-> __result.error, value |-> NoFloat, size |-> 0]
                 ELSE [raised |-> FALSE, error |-> NoError, value |-> __result.value, size |-> 0],
         calls |-> << <<num1, num2>> >>,
         self |-> self]

\* ------------------------------------------------------------------- state
VARIABLES
    foreign,     \* instance -> [st, rc]: the foreign instances and their reference counts
    callerRef,   \* instance -> whether the caller that created it still holds its handle
    adapters,    \* adapter -> [st, _swiftPart]
    handedOut,   \* adapter -> what a read through the reference getSwiftPart returned reaches
    undefined,   \* "no", or what came of using a dangling reference: "used", "crashed"
    lastCall,    \* the latest sum or getExternalMemorySize call and its outcome
    pc, args, first, second  \* the two calls sum(a, b), sum(b, a) on one adapter

vars == <<foreign, callerRef, adapters, handedOut, undefined, lastCall,
          pc, args, first, second>>

pairVars == <<pc, args, first, second>>

NoCall == [op |-> "none", adapter |-> Null, num1 |-> NoFloat, num2 |-> NoFloat,
           fault |-> NoError, mem |-> 0, out |-> NoOutcome, calls |-> << >>,
           afterRaise |-> FALSE]

\* Whether the call before this one was a sum on adapter a that raised.
AfterRaise(a) ==
    lastCall.op = "sum" /\ lastCall.adapter = a /\ lastCall.out.raised

\* The arguments the call specification calls sum with:
\* 0.0, 2.5, 3.5, -2.5 and DBL_MAX.
SampleArgs == { Fin(0, 0), Fin(0, 5), Fin(0, 7), Fin(1, 5), Max(0) }

Init ==
    /\ foreign = [i \in Instances |-> [st |-> "unborn", rc |-> 0]]
    /\ callerRef = [i \in Instances |-> FALSE]
    /\ adapters = [a \in Adapters |-> Unbuilt]
    /\ handedOut = [a \in Adapters |-> Null]
    /\ undefined = "no"
    /\ lastCall = NoCall
    /\ pc = "idle"
    /\ args = <<NoFloat, NoFloat>>
    /\ first = NoOutcome
    /\ second = NoOutcome

\* The caller creates a foreign instance and holds the first handle to it.
NewForeign(i) ==
    /\ undefined # "crashed"
    /\ undefined' = undefined
    /\ foreign[i].st = "unborn"
    /\ \A j \in Instances : j < i => foreign[j].st # "unborn"
    /\ foreign' = [foreign EXCEPT ![i] = [st |-> "live", rc |-> 1]]
    /\ callerRef' = [callerRef EXCEPT ![i] = TRUE]
    /\ UNCHANGED <<adapters, handedOut, lastCall>>
    /\ UNCHANGED pairVars

\* The caller's own handle goes out of scope.
CallerRelease(i) ==
    /\ undefined # "crashed"
    /\ undefined' = undefined
    /\ callerRef[i]
    /\ foreign' = Release(foreign, i)
    /\ callerRef' = [callerRef EXCEPT ![i] = FALSE]
    /\ UNCHANGED <<adapters, handedOut, lastCall>>
    /\ UNCHANGED pairVars

\* The caller has a handle to instance i to copy from: its own, or the one a
\* reference from getSwiftPart designates.
CanCopy(i) ==
    \/ callerRef[i]
    \/ \E b \in Adapters : adapters[b].st = "alive" /\ handedOut[b] = i

Construct(a, i) ==
    /\ undefined # "crashed"
    /\ undefined' = undefined
    /\ adapters[a].st = "unbuilt"
    /\ \A b \in Adapters : b < a => adapters[b].st # "unbuilt"
    /\ CanCopy(i)
    /\ LET c == AdapterConstruct(i, foreign)
       IN  /\ adapters' = [adapters EXCEPT ![a] = c.self]
           /\ foreign' = c.foreign
    /\ UNCHANGED <<callerRef, handedOut, lastCall>>
    /\ UNCHANGED pairVars

Destroy(a) ==
    /\ undefined # "crashed"
    /\ undefined' = undefined
    /\ adapters[a].st = "alive"
    /\ LET d == AdapterDestroy(adapters[a], foreign)
       IN  /\ adapters' = [adapters EXCEPT ![a] = d.self]
           /\ foreign' = d.foreign
    /\ handedOut' = [handedOut EXCEPT ![a] = IF @ = Null THEN Null ELSE Dangling]
    /\ UNCHANGED <<callerRef, lastCall>>
    /\ UNCHANGED pairVars

GetSwiftPart(a) ==
    /\ undefined # "crashed"
    /\ undefined' = undefined
    /\ adapters[a].st = "alive"
    /\ handedOut' = [handedOut EXCEPT ![a] = AdapterGetSwiftPart(adapters[a])]
    /\ UNCHANGED <<foreign, callerRef, adapters, lastCall>>
    /\ UNCHANGED pairVars

\* The caller assigns a handle to instance i through the reference that
\* getSwiftPart(a) returned.
AssignSwiftPart(a, i) ==
    /\ undefined # "crashed"
    /\ undefined' = undefined
    /\ adapters[a].st = "alive"
    /\ handedOut[a] # Null
    /\ i # adapters[a]._swiftPart
    /\ CanCopy(i)
    /\ LET w == AdapterAssignSwiftPart(adapters[a], i, foreign)
       IN  /\ adapters' = [adapters EXCEPT ![a] = w.self]
           /\ foreign' = w.foreign
    /\ handedOut' = [handedOut EXCEPT ![a] = i]
    /\ UNCHANGED <<callerRef, lastCall>>
    /\ UNCHANGED pairVars

\* The process ends, and its instances and adapters with it.
Crash ==
    /\ undefined' = "crashed"
    /\ foreign' = [i \in Instances |-> [st |-> "unborn", rc |-> 0]]
    /\ callerRef' = [i \in Instances |-> FALSE]
    /\ adapters' = [a \in Adapters |-> Unbuilt]
    /\ handedOut' = [a \in Adapters |-> Null]
    /\ UNCHANGED lastCall
    /\ UNCHANGED pairVars

\* The reference getSwiftPart(b) returned outlives adapter b.
IsDangling(b) == adapters[b].st = "destroyed" /\ handedOut[b] = Dangling

\* The caller constructs adapter a from the handle it reads through the
\* dangling reference of b, and the read finds v: the handle of an instance,
\* live or dead, or garbage, which leaves the adapter alive on no instance.
ConstructFromDangling(a, b, v) ==
    /\ undefined # "crashed"
    /\ IsDangling(b)
    /\ v \in DanglingReads(foreign)
    /\ adapters[a].st = "unbuilt"
    /\ \A c \in Adapters : c < a => adapters[c].st # "unbuilt"
    /\ LET c == AdapterConstruct(v, foreign)
       IN  /\ adapters' = [adapters EXCEPT ![a] = c.self]
           /\ foreign' = c.foreign
    /\ undefined' = "used"
    /\ UNCHANGED <<callerRef, handedOut, lastCall>>
    /\ UNCHANGED pairVars

\* The caller assigns, through the valid reference of a, the handle it reads
\* through the dangling reference of b, and the read finds v; the adapter
\* gives up the reference it had, and on garbage takes none.
AssignFromDangling(a, b, v) ==
    /\ undefined # "crashed"
    /\ IsDangling(b)
    /\ v \in DanglingReads(foreign)
    /\ adapters[a].st = "alive"
    /\ handedOut[a] # Null
    /\ LET w == AdapterAssignSwiftPart(adapters[a], v, foreign)
       IN  /\ adapters' = [adapters EXCEPT ![a] = w.self]
           /\ foreign' = w.foreign
    /\ handedOut' = [handedOut EXCEPT ![a] = v]
    /\ undefined' = "used"
    /\ UNCHANGED <<callerRef, lastCall>>
    /\ UNCHANGED pairVars

\* The reference counts stay within MaxCount of zero.
InCount(f) == \A j \in DOMAIN f : f[j].rc \in (0 - MaxCount)..MaxCount

\* The caller assigns the handle i through the dangling reference of b: a
\* handle to an instance, which is retained, or, when the source is itself
\* read through a dangling reference, possibly garbage, and then nothing is
\* retained.  The storage written holds v: the handle of an instance, which is
\* released a further time, also when that instance is dead already, or
\* garbage, and then nothing is released.  The storage is dead (c = Null)
\* or has become the member of the live adapter c, whose handle is thereby
\* replaced.
AssignThroughDangling(b, i, v, c) ==
    /\ undefined # "crashed"
    /\ IsDangling(b)
    /\ i \in DanglingReads(foreign)
    /\ v \in DanglingReads(foreign)
    /\ c # Null => (adapters[c].st = "alive" /\ adapters[c]._swiftPart = v)
    /\ foreign' = Release(Retain(foreign, i), v)
    /\ InCount(foreign')
    /\ adapters' = IF c = Null THEN adapters ELSE [adapters EXCEPT ![c]._swiftPart = i]
    /\ handedOut' = IF c = Null \/ handedOut[c] = Null THEN handedOut
                    ELSE [handedOut EXCEPT ![c] = i]
    /\ undefined' = "used"
    /\ UNCHANGED <<callerRef, lastCall>>
    /\ UNCHANGED pairVars

\* A copy from or an assignment through the dangling reference of b ends
\* the process.
CrashOnDangling(b) ==
    /\ undefined # "crashed"
    /\ IsDangling(b)
    /\ Crash

Sum(a, num1, num2, faults) ==
    /\ undefined # "crashed"
    /\ undefined' = undefined
    /\ adapters[a].st = "alive"
    /\ LET r == AdapterSum(adapters[a], num1, num2, faults)
       IN  /\ adapters' = [adapters EXCEPT ![a] = r.self]
           /\ lastCall' = [op |-> "sum", adapter |-> a, num1 |-> num1, num2 |-> num2,
                           fault |-> faults[1], mem |-> 0, out |-> r.out,
                           calls |-> r.calls, afterRaise |-> AfterRaise(a)]
    /\ UNCHANGED <<foreign, callerRef, handedOut>>
    /\ UNCHANGED pairVars

GetExternalMemorySize(a, mem) ==
    /\ undefined # "crashed"
    /\ undefined' = undefined
    /\ adapters[a].st = "alive"
    /\ LET r == AdapterGetExternalMemorySize(adapters[a], mem)
       IN  /\ adapters' = [adapters EXCEPT ![a] = r.self]
           /\ lastCall' = [op |-> "getExternalMemorySize", adapter |-> a,
                           num1 |-> NoFloat, num2 |-> NoFloat, fault |-> NoError,
                           mem |-> mem, out |-> r.out, calls |-> << >>,
                           afterRaise |-> AfterRaise(a)]
    /\ UNCHANGED <<foreign, callerRef, handedOut>>
    /\ UNCHANGED pairVars

\* ---- the life cycle: instances and adapters come and go, with calls between
\* Between the steps of the life cycle the adapters are called; what a call
\* returns is not recorded here, what it does to the adapter is.
LifeSumStep ==
    \E a \in Adapters, f1 \in {NoError, "E1"} :
        /\ undefined # "crashed"
        /\ adapters[a].st = "alive"
        /\ IsLive(foreign, adapters[a]._swiftPart)
        /\ adapters' = [adapters EXCEPT
                          ![a] = AdapterSum(@, Fin(0, 5), Fin(0, 7), <<f1, NoError>>).self]
        /\ UNCHANGED <<foreign, callerRef, handedOut, undefined, lastCall>>
        /\ UNCHANGED pairVars

LifeMemStep ==
    \E a \in Adapters :
        /\ undefined # "crashed"
        /\ adapters[a].st = "alive"
        /\ IsLive(foreign, adapters[a]._swiftPart)
        /\ adapters' = [adapters EXCEPT ![a] = AdapterGetExternalMemorySize(@, MaxMem).self]
        /\ UNCHANGED <<foreign, callerRef, handedOut, undefined, lastCall>>
        /\ UNCHANGED pairVars

\* A call on a live adapter whose handle, after the use of a dangling
\* reference, designates a dead instance or none reaches freed memory, and
\* may end the process.
CallOnDead(a) ==
    /\ undefined = "used"
    /\ adapters[a].st = "alive"
    /\ ~IsLive(foreign, adapters[a]._swiftPart)
    /\ Crash

Next ==
    \/ \E i \in Instances : NewForeign(i)
    \/ \E i \in Instances : CallerRelease(i)
    \/ \E a \in Adapters, i \in Instances : Construct(a, i)
    \/ \E a \in Adapters : Destroy(a)
    \/ \E a \in Adapters : GetSwiftPart(a)
    \/ \E a \in Adapters, i \in Instances : AssignSwiftPart(a, i)
    \/ \E a \in Adapters, b \in Adapters, v \in Instances \cup {Garbage} :
          ConstructFromDangling(a, b, v)
    \/ \E a \in Adapters, b \in Adapters, v \in Instances \cup {Garbage} :
          AssignFromDangling(a, b, v)
    \/ \E b \in Adapters, i \in Instances \cup {Garbage}, v \in Instances \cup {Garbage},
          c \in Adapters \cup {Null} :
          AssignThroughDangling(b, i, v, c)
    \/ \E b \in Adapters : CrashOnDangling(b)
    \/ \E a \in Adapters : CallOnDead(a)
    \/ LifeSumStep
    \/ LifeMemStep

Spec == Init /\ [][Next]_vars

\* ---- the calls: every adapter is built, and sum and getExternalMemorySize
\* ---- are called in any order
InstanceOf(a) == ((a - 1) % MaxInst) + 1

Users(i) == { a \in Adapters : InstanceOf(a) = i }

InitCalls ==
    /\ foreign = [i \in Instances |-> [st |-> "live", rc |-> 1 + Cardinality(Users(i))]]
    /\ callerRef = [i \in Instances |-> TRUE]
    /\ adapters = [a \in Adapters |-> [st |-> "alive", _swiftPart |-> InstanceOf(a)]]
    /\ handedOut = [a \in Adapters |-> Null]
    /\ undefined = "no"
    /\ lastCall = NoCall
    /\ pc = "idle"
    /\ args = <<NoFloat, NoFloat>>
    /\ first = NoOutcome
    /\ second = NoOutcome

SumStep ==
    \E a \in Adapters, num1 \in SampleArgs, num2 \in SampleArgs,
       f1 \in Faults, f2 \in Faults : Sum(a, num1, num2, <<f1, f2>>)

MemStep == \E a \in Adapters, mem \in ForeignMemorySizes : GetExternalMemorySize(a, mem)

NextCalls == SumStep \/ MemStep

SpecCalls == InitCalls /\ [][NextCalls]_vars

\* ---- the pair: sum(a, b) and then sum(b, a) on adapter 1, for every pair
\* ---- of finite doubles
InitPair ==
    /\ foreign = [i \in Instances |-> [st |-> "live", rc |-> 1 + Cardinality(Users(i))]]
    /\ callerRef = [i \in Instances |-> TRUE]
    /\ adapters = [a \in Adapters |-> [st |-> "alive", _swiftPart |-> InstanceOf(a)]]
    /\ handedOut = [a \in Adapters |-> Null]
    /\ undefined = "no"
    /\ lastCall = NoCall
    /\ pc = "start"
    /\ args \in Floats \X Floats
    /\ first = NoOutcome
    /\ second = NoOutcome

CallAB(faults) ==
    /\ pc = "start"
    /\ LET r == AdapterSum(adapters[1], args[1], args[2], faults)
       IN  /\ adapters' = [adapters EXCEPT ![1] = r.self]
           /\ first' = r.out
    /\ pc' = "first"
    /\ UNCHANGED <<foreign, callerRef, handedOut, undefined, lastCall, args, second>>

CallBA(faults) ==
    /\ pc = "first"
    /\ LET r == AdapterSum(adapters[1], args[2], args[1], faults)
       IN  /\ adapters' = [adapters EXCEPT ![1] = r.self]
           /\ second' = r.out
    /\ pc' = "second"
    /\ UNCHANGED <<foreign, callerRef, handedOut, undefined, lastCall, args, first>>

NextPair ==
    \/ \E f1 \in Faults, f2 \in Faults : CallAB(<<f1, f2>>)
    \/ \E f1 \in Faults, f2 \in Faults : CallBA(<<f1, f2>>)

SpecPair == InitPair /\ [][NextPair]_vars

\* ------------------------------------------------------------------ claims
\* The Result the foreign instance gave the latest sum call, for the
\* arguments it received.
ForeignResult ==
    ForeignSum(lastCall.calls[1][1], lastCall.calls[1][2], lastCall.fault)

\* C1: when the foreign sum's result has an error, the adapter's sum raises
\* that same error and returns no value; when it has none, sum does not raise.
C1_ErrorIsRethrown ==
    lastCall.op = "sum" =>
        IF ForeignResult.hasError
        THEN /\ lastCall.out.raised
             /\ lastCall.out.error = ForeignResult.error
             /\ lastCall.out.value = NoFloat
        ELSE ~lastCall.out.raised

C1_Witness ==
    /\ lastCall.op = "sum"
    /\ lastCall.fault = "E2"
    /\ lastCall.out.raised
    /\ lastCall.out.error = "E2"

\* C2: sum hands num1 and num2 to the foreign sum in that order, unchanged,
\* and returns exactly the value the foreign result carries.
C2_ArgumentsForwarded ==
    lastCall.op = "sum" =>
        /\ lastCall.calls[1] = <<lastCall.num1, lastCall.num2>>
        /\ ~ForeignResult.hasError => lastCall.out.value = ForeignResult.value

C2_Witness ==
    /\ lastCall.op = "sum"
    /\ lastCall.num1 = Fin(0, 7)
    /\ lastCall.num2 = Fin(1, 5)
    /\ ~lastCall.out.raised
    /\ lastCall.out.value = Fin(0, 2)

\* The exact sum of x and y, as hi times DBL_MAX plus lo halves.
Hi(x) == IF x.k = "max" THEN (IF x.s = 1 THEN -1 ELSE 1) ELSE 0

Lo(x) == IF x.k = "fin" THEN Units(x) ELSE 0

\* r is the IEEE-754 sum of the finite doubles x and y: the exact sum where
\* it is representable, DBL_MAX where the exact sum is within half a unit in
\* the last place of it, and an infinity beyond that.
IsIEEESum(x, y, r) ==
    LET hi == Hi(x) + Hi(y)
        lo == Lo(x) + Lo(y)
    IN  IF hi = 0
        THEN /\ r.k = "fin"
             /\ Units(r) = lo
             /\ (lo # 0 \/ Hi(x) # 0) => r.s = (IF lo < 0 THEN 1 ELSE 0)
        ELSE IF Abs(hi) = 1
        THEN r = Max(IF hi < 0 THEN 1 ELSE 0)
        ELSE r = Inf(IF hi < 0 THEN 1 ELSE 0)

\* C3: for finite doubles a and b, a sum(a, b) that returns, returns a + b
\* under IEEE-754 addition; sum(0.0, 0.0) is 0.0 and sum(2.5, 3.5) is 6.0.
C3_SumIsIEEEAddition ==
    (pc # "start" /\ ~first.raised) =>
        /\ FEq(first.value, FAdd(args[1], args[2]))
        /\ IsIEEESum(args[1], args[2], first.value)
        /\ (FEq(args[1], Fin(0, 0)) /\ FEq(args[2], Fin(0, 0))) => FEq(first.value, Fin(0, 0))
        /\ (args = <<Fin(0, 5), Fin(0, 7)>>) => first.value = Fin(0, 12)

C3_Witness ==
    /\ pc = "first"
    /\ args = <<Fin(0, 5), Fin(0, 7)>>
    /\ ~first.raised
    /\ first.value = Fin(0, 12)

\* C4: sum(a, b) and sum(b, a) on the same adapter return the same value.
C4_Commutative ==
    (pc = "second" /\ ~first.raised /\ ~second.raised) => first.value = second.value

C4_Witness ==
    /\ pc = "second"
    /\ args = <<Fin(0, 7), Fin(1, 5)>>
    /\ ~first.raised
    /\ ~second.raised
    /\ first.value = Fin(0, 2)
    /\ second.value = Fin(0, 2)

\* C5: getExternalMemorySize never raises and returns a non-negative value,
\* the one the foreign instance's memory-size query answered, also right
\* after a sum that raised.
C5_MemorySizeForwarded ==
    lastCall.op = "getExternalMemorySize" =>
        /\ ~lastCall.out.raised
        /\ lastCall.out.size >= 0
        /\ lastCall.out.size = lastCall.mem

C5_Witness ==
    /\ lastCall.op = "getExternalMemorySize"
    /\ lastCall.afterRaise
    /\ lastCall.mem = MaxMem
    /\ lastCall.out.size = MaxMem

\* C6: one invocation of sum calls the foreign sum exactly once, whether the
\* foreign result is a value or an error.
C6_OneForeignCall ==
    lastCall.op = "sum" => Len(lastCall.calls) = 1

C6_Witness ==
    /\ lastCall.op = "sum"
    /\ lastCall.fault = "E1"
    /\ lastCall.out.raised
    /\ Len(lastCall.calls) = 1

Holding(i) == { a \in Adapters : adapters[a].st = "alive" /\ adapters[a]._swiftPart = i }

\* Every reference to a foreign instance is the caller's or a live adapter's.
C7_References ==
    /\ \A i \in Instances :
          /\ foreign[i].rc = (IF callerRef[i] THEN 1 ELSE 0) + Cardinality(Holding(i))
          /\ foreign[i].st = "live" <=> foreign[i].rc > 0
    /\ \A a \in Adapters : adapters[a].st # "alive" => adapters[a]._swiftPart = Null

\* The constructor sets the handle from the instance the caller supplied
\* and the destructor releases it.
C7_BuiltAndReleased ==
    \A a \in Adapters :
        /\ (adapters[a].st = "unbuilt" /\ adapters'[a].st = "alive") =>
              /\ CanCopy(adapters'[a]._swiftPart)
              /\ Rc(foreign', adapters'[a]._swiftPart) = Rc(foreign, adapters'[a]._swiftPart) + 1
        /\ (adapters[a].st = "alive" /\ adapters'[a].st = "destroyed") =>
              /\ adapters[a]._swiftPart \in Instances
              /\ Rc(foreign', adapters[a]._swiftPart) = Rc(foreign, adapters[a]._swiftPart) - 1

\* A live adapter keeps the handle it was constructed with.
C7_Kept ==
    \A a \in Adapters :
        (adapters[a].st = "alive" /\ adapters'[a].st = "alive") =>
            adapters'[a]._swiftPart = adapters[a]._swiftPart

\* C7: the foreign handle is set once, at adapter construction, from the
\* instance the caller supplied, and is released when the adapter is
\* destroyed, so that every reference to a foreign instance is the caller's
\* or a live adapter's.
C7_SetOnce ==
    /\ [](C7_References)
    /\ [][C7_BuiltAndReleased /\ C7_Kept]_vars

\* C8: a live adapter's foreign instance is held by no other adapter and is
\* reachable by nobody but the adapter: not by the caller that supplied it,
\* and not through a reference from getSwiftPart.
C8_Exclusive ==
    \A a \in Adapters :
        adapters[a].st = "alive" =>
            /\ adapters[a]._swiftPart \in Instances
            /\ ~callerRef[adapters[a]._swiftPart]
            /\ Holding(adapters[a]._swiftPart) = {a}
            /\ handedOut[a] = Null

\* Every adapter holds the handle it was built with, and a call made right
\* after a sum that raised has the outcome its own foreign result gives.
C9_State ==
    /\ \A a \in Adapters : adapters[a] = [st |-> "alive", _swiftPart |-> InstanceOf(a)]
    /\ (lastCall.afterRaise /\ lastCall.op = "sum") =>
          /\ lastCall.out.raised = (lastCall.fault # NoError)
          /\ lastCall.out.error = lastCall.fault
          /\ lastCall.out.raised \/ FEq(lastCall.out.value, FAdd(lastCall.num1, lastCall.num2))
    /\ (lastCall.afterRaise /\ lastCall.op = "getExternalMemorySize") =>
          /\ ~lastCall.out.raised
          /\ lastCall.out.size = lastCall.mem

\* C9: sum and getExternalMemorySize change nothing of the adapter, whether
\* they return or raise, and a sum that raised leaves no trace in later calls.
C9_CallsLeaveAdapterUnchanged ==
    [](C9_State) /\ [][UNCHANGED <<adapters, foreign, callerRef, handedOut, undefined>>]_vars

C9_Witness ==
    /\ lastCall.op = "sum"
    /\ lastCall.afterRaise
    /\ ~lastCall.out.raised
    /\ lastCall.out.value = Fin(0, 12)
    /\ adapters[lastCall.adapter]._swiftPart = InstanceOf(lastCall.adapter)

====
